---- MODULE Spec2Model ----
(***************************************************************************)
(* Model of src/src/cli.js (homey-community-store-cli): the `build`,       *)
(* `publish` and `logout` commands.  One action per resumption of the      *)
(* async handlers:                                                         *)
(* each action runs from the settling of the awaited call to the next      *)
(* await (or to the return / throw that ends the handler).                 *)
(***************************************************************************)
EXTENDS Naturals, Sequences, FiniteSets, TLC

VARIABLES
    cmd,              \* the yargs command that was invoked
    pc,               \* position of the handler: which await it is parked on
    store,            \* keychain contents under service 'hcs-cli': account -> secret
    awsEnv,           \* ambient AWS credentials of the process environment, as
                      \* AWS.Config found them when it had to fall back on them
    appInfo,          \* the loaded app.json: its id and the localized sources it carries
    archive,          \* how loading app.json / createTar ended
    tar,              \* `tar` of build/publish: {} or {hash, filename}
    creds,            \* result of keytar.findCredentials (line 349)
    accessKeyId,      \* line 350
    accessKeySecure,  \* line 351
    accessKeySecret,  \* answer of promptForAccessKeySecret (line 364)
    storeOps,         \* keytar calls issued so far, in order
    keyIdPrompts,     \* times promptForAccessKeyId was shown
    secretPrompts,    \* times promptForAccessKeySecret was shown
    requests,         \* signed requests handed to axios
    response,         \* what `await axios(...)` produced (line 407)
    tree,             \* files that walkSync found under cwd()
    put,              \* per file: state of its s3.putObject call
    promise,          \* per path: state of the promise walkSync made for it
    overall,          \* `overall` of uploadToS3: the promises handed to publish
    cwd,              \* the directory uploadToS3 walks: cwd() of line 416
    uploadLog,        \* the per-file messages of lines 175 and 177
    logs,             \* messages written with log() / error()
    unhandled,        \* an exception / rejection nobody handles was raised
    force,            \* argv.force of publish (line 230)
    latest,           \* argv.latest of build and publish (line 76)
    del,              \* logout: per account, state of its keytar.deletePassword call
    descriptor,       \* locale assembly: the localized sources of the app version
    locales,          \* locale assembly: `locales` of publish (lines 292-346)
    entry,            \* archive filter: the (path, stats) tar.c offers to the filter
    kept              \* archive filter: what the filter answered for that entry

vars == <<cmd, pc, store, awsEnv, appInfo, archive, tar, creds, accessKeyId,
          accessKeySecure, accessKeySecret, storeOps, keyIdPrompts, secretPrompts,
          requests, response, tree, put, promise, overall, cwd, uploadLog, logs,
          unhandled, force, latest, del, descriptor, locales, entry, kept>>

(***************************************************************************)
(* Values                                                                  *)
(***************************************************************************)
Undefined == "undefined"
FalseVal  == "false"
NoSecret  == "absent"

\* Most optional files (besides the archive itself) in the project tree.
MaxFiles == 2

Accounts == {"k1", "k2"}
Secrets  == {"s1", "s2"}
\* The secret the keychain holds for an account that has one, before the
\* command runs.
KeychainSecret(a) == IF a = "k1" THEN "s1" ELSE "s2"
\* The keychains the command can start with: any subset of the accounts.
Keychains == {[a \in Accounts |-> IF a \in S THEN KeychainSecret(a) ELSE NoSecret] :
                 S \in SUBSET Accounts}
\* What the operator can type at the secret prompt: a secret or nothing.
SecretAnswers == Secrets \cup {""}

\* Localized sources app.json may carry (appInfo.name / .description / .tags).
AppJsonSources == {"name", "summary", "tags"}

EmptyTar == [hash |-> Undefined, filename |-> Undefined]
\* Ids an app.json can carry (appInfo.id).
AppIds == {"id", "com.github.user.app"}
NoAppInfo == [id |-> Undefined, sources |-> {}]
\* Lines 75-78: version = `v${appInfo.version}`, or 'latest' with argv.latest.
Version(l) == IF l THEN "latest" ELSE "v1"
\* Line 79: tarFile = `${appInfo.id}-${version}.tar.gz`, and the same name
\* without its extension.
TarFileName(id, l) ==
    CASE id = "id" /\ ~l -> "id-v1.tar.gz"
      [] id = "id" /\ l  -> "id-latest.tar.gz"
      [] id # "id" /\ ~l -> "com.github.user.app-v1.tar.gz"
      [] id # "id" /\ l  -> "com.github.user.app-latest.tar.gz"
TarBaseName(id, l) ==
    CASE id = "id" /\ ~l -> "id-v1.tar"
      [] id = "id" /\ l  -> "id-latest.tar"
      [] id # "id" /\ ~l -> "com.github.user.app-v1.tar"
      [] id # "id" /\ l  -> "com.github.user.app-latest.tar"
\* Line 100: what createTar resolves with.
ArchiveOf(id, l) == [hash |-> "sha1", filename |-> TarFileName(id, l)]
\* createTar: resolved, tar.c rejected, or the read stream emitted 'error'.
TarOutcomes == {"ok", "createError", "readError"}

\* What `await axios(signedRequest).catch(...)` can yield: undefined (the
\* request failed), a response without data.body, or data.body with
\* success false / true.
Responses == {"none", "noBody", "rejected", "accepted"}

EnvCredentials == [ok |-> TRUE, accessKeyId |-> "envKey", secretAccessKey |-> "envSecret"]
NoCredentials  == [ok |-> FALSE, accessKeyId |-> Undefined, secretAccessKey |-> Undefined]

(***************************************************************************)
(* The project tree                                                        *)
(***************************************************************************)
\* Directories of the project an image can lie in.
Dirs == {<<>>, <<"assets", "icons">>, <<"node_modules">>, <<".github">>}
Exts == {".png", ".js"}
AllowedExts == {".svg", ".png", ".jpeg", ".jpg", ".gz"}

\* A file is a directory path, a base name and an extension; "/" marks a
\* directory entry (dir is its own path) and "=" an entry that is neither a
\* regular file nor a directory (a socket, a FIFO): stat.isFile() and
\* stat.isDirectory() are both false for it.
Socket == [dir |-> <<>>, name |-> "sock", ext |-> "="]
\* One image per directory, one file per extension in the root, an image
\* whose own name holds '.github', one socket.
OptionalFiles ==
    {[dir |-> d, name |-> "a", ext |-> ".png"] : d \in Dirs}
        \cup {[dir |-> <<>>, name |-> "a", ext |-> e] : e \in Exts}
        \cup {[dir |-> <<>>, name |-> "my.github", ext |-> ".png"]}
        \cup {Socket}
\* The archive createTar wrote into cwd() (line 79, 83).
TarFile(id, l) == [dir |-> <<>>, name |-> TarBaseName(id, l), ext |-> ".gz"]
Trees == {t \in SUBSET OptionalFiles : Cardinality(t) <= MaxFiles}

DirEntries(t) ==
    UNION {{[dir |-> SubSeq(f.dir, 1, n), name |-> "", ext |-> "/"] :
               n \in 1..Len(f.dir)} : f \in t}
Entries(t) == t \cup DirEntries(t)
AllEntries == Entries(OptionalFiles \cup {TarFile(i, l) : i \in AppIds, l \in BOOLEAN})
\* Lines 146, 149: stat.isFile() / stat.isDirectory()
IsFile(e) == e.ext \notin {"/", "="}
IsDirectory(e) == e.ext = "/"
Segments(e) == {e.dir[i] : i \in 1..Len(e.dir)}

\* Directories a project can live in (cwd(), an absolute path).
ProjectDirs == {<<"home", "app">>, <<"home", "my.github.io", "app">>,
                <<"home", "node_modules", "app">>}
NoDir == <<>>
\* The names of the model that hold another string as a proper substring.
Substrings == {<<"my.github.io", ".github">>, <<"my.github", ".github">>,
               <<TarBaseName("com.github.user.app", FALSE), ".github">>,
               <<TarBaseName("com.github.user.app", TRUE), ".github">>}
\* String.prototype.includes on one component of a path: the component is x
\* or holds x as a substring.
SegmentIncludes(seg, x) == seg = x \/ <<seg, x>> \in Substrings
\* Line 144: filePath = path.join(currentDirPath, name), starting from cwd():
\* the absolute path, from the project directory's own segments down to the
\* entry's name.
FilePath(d, f) == {d[i] : i \in 1..Len(d)} \cup Segments(f) \cup {f.name}
\* filePath.includes(x)
PathIncludes(d, f, x) == \E seg \in FilePath(d, f) : SegmentIncludes(seg, x)

\* Line 162: the callback uploads a file only when its extension is allowed
\* and its absolute path holds neither 'node_modules' nor '.github'.
Eligible(d, f) ==
    /\ IsFile(f)
    /\ f.ext \in AllowedExts
    /\ ~PathIncludes(d, f, "node_modules")
    /\ ~PathIncludes(d, f, ".github")

\* A walk that hands over the promises of the top directory only.
TopLevelOnly(t) == {e \in Entries(t) : Len(e.dir) = (IF IsDirectory(e) THEN 1 ELSE 0)}
\* Line 155: every walkSync call, the nested ones included, pushes its
\* promises into the one `overall` array; the walk itself never awaits, so
\* all of them are pushed before uploadToS3 resolves.
Collected(t) == Entries(t)

\* Lines 146-152 during the walk: a file the callback skips (line 163) and a
\* directory resolve their map promise at once; an eligible file waits for
\* its putObject; for an entry that is neither, no branch calls resolveMap.
PromiseAfterWalk(d, e) ==
    IF Eligible(d, e) THEN "pending"
    ELSE IF IsFile(e) \/ IsDirectory(e) THEN "resolved"
    ELSE "pending"

\* A map promise that resolves whatever its upload did.
AlwaysResolved(result) == "resolved"
\* Lines 147-148: resolveMap() runs only after `await callback(...)` returned;
\* when the callback's promise rejects the await throws and the map promise
\* stays pending.
MapPromiseAfter(result) == IF result = "ok" THEN "resolved" ELSE "pending"

\* Lines 175, 177: the message written when a file's putObject settled.
UploadMessage(result, f) ==
    [text |-> IF result = "ok" THEN "Successfully uploaded" ELSE "Could not upload",
     file |-> f]

\* Line 420: Promise.allSettled never rejects, so `errors` stays undefined.
AllSettledRejects == FALSE

(***************************************************************************)
(* Credential store                                                        *)
(***************************************************************************)
\* getCredentials resolves the stored secret, or false when there is none
\* (line 204).
getCredentials(account) ==
    IF store[account] # NoSecret THEN store[account] ELSE FalseVal

\* keytar.findCredentials: every stored {account, password} pair.
findCredentials ==
    {[account |-> a, password |-> store[a]] : a \in {x \in Accounts : store[x] # NoSecret}}

SeveralPairs(c) == c.ok /\ Cardinality(c.list) > 1
\* Line 352: creds && creds.length === 1
UniquePair(c) == c.ok /\ Cardinality(c.list) = 1

PromptsWithoutSecret(sec) == sec \notin Secrets
\* Line 361: accessKeySecure === false
NeedsSecretPrompt(sec) == sec = FalseVal

AlwaysStore(answer) == "store"
\* Lines 365-373: a non-empty answer is stored, an empty one ends publish.
SecretAnswerBranch(answer) == IF answer # "" THEN "store" ELSE "abort"

ProceedsRegardless(success) == "ready"
\* Lines 367-370: publish goes on only when setCredentials resolved true.
StoreResultBranch(success) == IF success = "true" THEN "ready" ELSE "halt"

\* Lines 378-382, 399-400: new AWS.Config takes the given pair as its
\* credentials only when both are set; otherwise AWS.config.credentials is
\* what the environment provides (env variables, shared ini file), or null.
AwsCredentials(id, sec, env) ==
    IF sec \notin {Undefined, FalseVal, ""}
    THEN [ok |-> TRUE, accessKeyId |-> id, secretAccessKey |-> sec]
    ELSE IF env = "present" THEN EnvCredentials ELSE NoCredentials
\* What the environment can hold when AWS.Config consults it; with a complete
\* pair given it is not consulted.
EnvConsulted(sec) ==
    IF sec \notin {Undefined, FalseVal, ""} THEN {awsEnv} ELSE {"present", "none"}

UploadsAnyBody(r) ==
    IF r \in {"accepted", "rejected"} THEN "upload" ELSE "failed"
\* Lines 408-432: which branch publish takes on the response.
ResponseBranch(r) ==
    IF r \in {"accepted", "rejected"}
    THEN (IF r = "rejected" THEN "rejected" ELSE "upload")
    ELSE "failed"

(***************************************************************************)
(* The publish request (lines 243-282, 384-394)                            *)
(***************************************************************************)
\* The part of `app` that comes from this invocation: the archive's hash and
\* filename (lines 250-251) and the assembled locales (line 346).
App(t, loc) == [hash |-> t.hash, filename |-> t.filename, locales |-> loc]

\* JSON.stringify of {app, force}: the properties in insertion order, each
\* with its text; a property whose value is undefined is left out (locales is
\* always an object, line 292, and force a boolean, line 230).
stringify(o) ==
    SelectSeq(<< <<"app.hash", o.app.hash>>,
                 <<"app.filename", o.app.filename>> >>,
              LAMBDA kv : kv[2] # Undefined)
        \o << <<"app.locales", o.app.locales>>,
               <<"force", IF o.force THEN "true" ELSE "false">> >>

\* A data object that always says force: false.
DataWithoutForce(app, f) == [app |-> app, force |-> FALSE]
\* Line 388: data: {app, force}, the object handed to axios.
RequestData(app, f) == [app |-> app, force |-> f]

\* Line 389: body: JSON.stringify({app, force}), the text aws4 signs.
RequestBody(app, f) == stringify([app |-> app, force |-> f])

\* The bytes of a request axios has not written yet.
NotSent == <<>>
\* Line 407: axios(signedRequest) writes request.data; with the
\* 'content-type': 'application/json' header of line 391 its request
\* transform serializes the object with JSON.stringify.  request.body is
\* not read by axios.
transformRequest(data) == stringify(data)

(***************************************************************************)
(* Locale assembly (lines 291-346)                                         *)
(***************************************************************************)
Langs == {"en", "nl"}
Versions == {"1.0.0", "1.1.0"}
NoMap == [l \in {} |-> Undefined]

\* A localized source of the app version: absent (undefined), or an object
\* keyed by language.  The text of source src in language l is <<src, l>>.
Absent == [present |-> FALSE, map |-> NoMap]
LangMap(src, ls) == [l \in ls |-> <<src, l>>]
Sources(src) == {Absent} \cup {[present |-> TRUE, map |-> LangMap(src, ls)] : ls \in SUBSET Langs}
\* getI18nDescriptions (lines 107-129) always returns an object, {} at least.
Descriptions == Sources("description") \ {Absent}
\* .homeychangelog.json (lines 285-289): version -> language -> text.
Changelogs ==
    {Absent} \cup
    UNION {{[present |-> TRUE, map |-> m] :
               m \in [vs -> {[l \in ls |-> "changelog"] : ls \in SUBSET Langs}]} :
           vs \in SUBSET Versions}

\* appVersion.name / .summary / .description / .tags / .changelog
\* (lines 249, 257, 260, 279, 288).
Descriptors ==
    [name : Sources("name"), summary : Sources("summary"), description : Descriptions,
     tags : Sources("tags"), changelog : Changelogs]
NoDescriptor ==
    [name |-> Absent, summary |-> Absent,
     description |-> [present |-> TRUE, map |-> NoMap],
     tags |-> Absent, changelog |-> Absent]

NotAssembled == [state |-> "pending", value |-> NoMap]
Threw        == [state |-> "threw", value |-> NoMap]

DescriptionFirst == <<"name", "description", "summary", "tags">>
\* The order of the four blocks of lines 294-329.
LocaleSources == <<"name", "summary", "description", "tags">>

\* The field of the locale entry a source is written to (lines 297, 306, 316,
\* 326): summary and description both go to `description`.
FieldOf(src) == IF src = "summary" THEN "description" ELSE src

\* {...rec, [field]: v}
Put(rec, field, v) ==
    [f \in (DOMAIN rec) \cup {field} |-> IF f = field THEN v ELSE rec[f]]

\* One block: for every language of the source, line 297 replaces the entry
\* by {name}, lines 304-307 (and 314-317, 324-327) spread the old entry and
\* set the field.
Step(loc, src, m) ==
    [l \in (DOMAIN loc) \cup (DOMAIN m) |->
        IF l \notin DOMAIN m THEN loc[l]
        ELSE IF src = "name" THEN [name |-> m[l]]
        ELSE Put(IF l \in DOMAIN loc THEN loc[l] ELSE NoMap, FieldOf(src), m[l])]

\* The blocks in order.  A block is skipped when its source is falsy; the log
\* line of every block but the first reads Object.keys(appVersion.name),
\* which throws a TypeError when the name is undefined (lines 302, 312, 322).
RECURSIVE Blocks(_, _, _)
Blocks(loc, d, srcs) ==
    IF srcs = <<>> THEN [state |-> "done", value |-> loc]
    ELSE LET src == Head(srcs) IN
         IF ~d[src].present THEN Blocks(loc, d, Tail(srcs))
         ELSE IF src # "name" /\ ~d.name.present THEN Threw
         ELSE Blocks(Step(loc, src, d[src].map), d, Tail(srcs))

\* Lines 331-344: the changelog of every version is filed under each of its
\* languages, creating the entry and its changelog object when missing.
ChangelogStep(loc, cl) ==
    LET ls == UNION {DOMAIN cl[v] : v \in DOMAIN cl} IN
    [l \in (DOMAIN loc) \cup ls |->
        IF l \notin ls THEN loc[l]
        ELSE Put(IF l \in DOMAIN loc THEN loc[l] ELSE NoMap, "changelog",
                 [v \in {w \in DOMAIN cl : l \in DOMAIN cl[w]} |-> cl[v][l]])]

\* Lines 292-346.
Assemble(d) ==
    LET r == Blocks(NoMap, d, LocaleSources) IN
    IF r.state = "threw" \/ ~d.changelog.present THEN r
    ELSE [state |-> "done", value |-> ChangelogStep(r.value, d.changelog.map)]

\* What the project directory holds besides app.json: nothing, or a
\* README.txt (lines 107-129) and a .homeychangelog.json (lines 285-289).
ProjectExtras == {{}, {"README.txt", ".homeychangelog.json"}}
\* Lines 243-289: the descriptor publish builds from app.json (summary is
\* appInfo.description), the README files and .homeychangelog.json.
DescriptorOf(info, extras) ==
    [name        |-> IF "name" \in info
                     THEN [present |-> TRUE, map |-> LangMap("name", Langs)] ELSE Absent,
     summary     |-> IF "summary" \in info
                     THEN [present |-> TRUE, map |-> LangMap("summary", Langs)] ELSE Absent,
     description |-> [present |-> TRUE,
                      map |-> LangMap("description",
                                      IF "README.txt" \in extras THEN {"en"} ELSE {})],
     tags        |-> IF "tags" \in info
                     THEN [present |-> TRUE, map |-> LangMap("tags", {"en"})] ELSE Absent,
     changelog   |-> IF ".homeychangelog.json" \in extras
                     THEN [present |-> TRUE,
                           map |-> [v \in {"1.0.0"} |-> [l \in {"en"} |-> "changelog"]]]
                     ELSE Absent]

(***************************************************************************)
(* The archive filter (lines 84-94)                                        *)
(***************************************************************************)
\* Deepest path offered to the filter.
MaxDepth == 2
\* Names a path segment can have; the archive's own name is one of them.
\* tarFile of the createTar call the filter belongs to (line 79).
tarFile == TarFileName("id", FALSE)
Names == {"node_modules", ".env", "lib", "app.json", tarFile}
Paths == UNION {[1..n -> Names] : n \in 1..MaxDepth}
FilterEntries == [path : Paths, isFile : BOOLEAN]
NoEntry == [path |-> <<>>, isFile |-> FALSE]

\* path.includes(x): some segment of the path is x.
Includes(path, x) == \E i \in 1..Len(path) : path[i] = x
\* path.startsWith('.'): tar.c hands paths relative to './' without the
\* leading './', so this is about the first segment.
StartsWithDot(path) == path[1] = ".env"

filterNoDependencyGuard(e) ==
    ~(e.isFile /\ (StartsWithDot(e.path) \/ Includes(e.path, tarFile)))
\* Lines 84-94: TRUE keeps the entry in the archive.
filter(e) ==
    IF ~Includes(e.path, "node_modules")
    THEN IF e.isFile /\ StartsWithDot(e.path) THEN FALSE
         ELSE IF e.isFile /\ Includes(e.path, tarFile) THEN FALSE
         ELSE TRUE
    ELSE TRUE

(***************************************************************************)
(* Initial state: the process has parsed its arguments and is about to     *)
(* call the command's handler.  The keychain holds any set of accounts.    *)
(* Idle is the part of it that is the same for every specification.        *)
(***************************************************************************)
Idle ==
    /\ pc = "start"
    /\ awsEnv = "unread"
    /\ appInfo = NoAppInfo
    /\ archive = "none"
    /\ tar = EmptyTar
    /\ creds = [ok |-> FALSE, list |-> {}]
    /\ accessKeyId = Undefined
    /\ accessKeySecure = Undefined
    /\ accessKeySecret = Undefined
    /\ storeOps = <<>>
    /\ keyIdPrompts = 0
    /\ secretPrompts = 0
    /\ requests = {}
    /\ response = "pending"
    /\ tree = {}
    /\ put = [e \in AllEntries |-> "none"]
    /\ promise = [e \in AllEntries |-> "none"]
    /\ overall = {}
    /\ cwd = NoDir
    /\ uploadLog = {}
    /\ logs = {}
    /\ unhandled = FALSE
    /\ del = [a \in Accounts |-> "none"]

Init ==
    /\ cmd \in {"build", "publish", "logout"}
    /\ store \in Keychains
    /\ force \in (IF cmd = "publish" THEN BOOLEAN ELSE {FALSE})
    /\ latest \in (IF cmd \in {"build", "publish"} THEN BOOLEAN ELSE {FALSE})
    /\ Idle
    /\ descriptor = NoDescriptor
    /\ locales = NotAssembled
    /\ entry = NoEntry
    /\ kept = "pending"

credVars   == <<store, creds, accessKeyId, accessKeySecure, accessKeySecret, storeOps,
                keyIdPrompts, secretPrompts>>
uploadVars == <<tree, put, promise, overall, cwd, uploadLog>>
\* The locale assembly of publish.
localeVars == <<descriptor, locales>>
\* What no handler writes: the command's arguments and the archive filter, which
\* is checked on its own below; and logout's deletions.
sideVars   == <<force, latest, del, entry, kept>>

(***************************************************************************)
(* build (lines 186-199)                                                   *)
(***************************************************************************)
\* Lines 187-193: require app.json, then call createTar and await it.  When
\* require throws, the catch logs and line 198 still runs.
BuildStart ==
    /\ cmd = "build" /\ pc = "start"
    /\ \E loaded \in BOOLEAN, id \in AppIds, src \in SUBSET AppJsonSources :
         IF loaded
         THEN /\ appInfo' = [id |-> id, sources |-> src]
              /\ pc' = "awaitTar"
              /\ UNCHANGED <<archive, logs>>
         ELSE /\ archive' = "loadError"
              /\ logs' = logs \cup {"error: e", "Build finished"}
              /\ pc' = "done"
              /\ UNCHANGED appInfo
    /\ UNCHANGED <<cmd, awsEnv, tar, requests, response, unhandled>>
    /\ UNCHANGED credVars /\ UNCHANGED uploadVars
    /\ UNCHANGED sideVars /\ UNCHANGED localeVars

\* Lines 193-198: createTar settled.  The catch block only logs, so the
\* "Build finished" line is written on both paths.
BuildTarSettled ==
    /\ cmd = "build" /\ pc = "awaitTar"
    /\ \E out \in TarOutcomes :
         /\ archive' = out
         /\ IF out = "ok"
            THEN /\ tar' = ArchiveOf(appInfo.id, latest)
                 /\ logs' = logs \cup {"created successfully", "Build finished"}
            ELSE /\ tar' = tar
                 /\ logs' = logs \cup {"error: e", "Build finished"}
    /\ pc' = "done"
    /\ UNCHANGED <<cmd, awsEnv, appInfo, requests, response, unhandled>>
    /\ UNCHANGED credVars /\ UNCHANGED uploadVars
    /\ UNCHANGED sideVars /\ UNCHANGED localeVars

(***************************************************************************)
(* publish (lines 226-435)                                                 *)
(***************************************************************************)
\* Lines 227-234: require app.json, then call createTar and await it.
PublishStart ==
    /\ cmd = "publish" /\ pc = "start"
    /\ \E loaded \in BOOLEAN, id \in AppIds, src \in SUBSET AppJsonSources :
         IF loaded
         THEN /\ appInfo' = [id |-> id, sources |-> src]
              /\ pc' = "awaitTar"
              /\ UNCHANGED <<archive, logs>>
         ELSE /\ archive' = "loadError"
              /\ logs' = logs \cup {"error: e"}
              /\ pc' = "done"
              /\ UNCHANGED appInfo
    /\ UNCHANGED <<cmd, awsEnv, tar, requests, response, unhandled>>
    /\ UNCHANGED credVars /\ UNCHANGED uploadVars
    /\ UNCHANGED sideVars /\ UNCHANGED localeVars

\* Lines 234-349: createTar settled.  On rejection the catch returns.
\* Otherwise the app object is built from app.json, the README files and the
\* changelog, the locales are assembled from it (lines 291-346, which throw
\* when the name is missing) and keytar.findCredentials is called.
PublishTarSettled ==
    /\ cmd = "publish" /\ pc = "awaitTar"
    /\ \E out \in TarOutcomes, extras \in ProjectExtras :
         /\ archive' = out
         /\ IF out # "ok"
            THEN /\ logs' = logs \cup {"error: e"}
                 /\ pc' = "done"
                 /\ UNCHANGED <<tar, storeOps, unhandled, descriptor, locales>>
            ELSE /\ tar' = ArchiveOf(appInfo.id, latest)
                 /\ logs' = logs \cup {"created successfully"}
                 /\ descriptor' = DescriptorOf(appInfo.sources, extras)
                 /\ locales' = Assemble(descriptor')
                 /\ IF locales'.state = "threw"
                    THEN /\ unhandled' = TRUE
                         /\ pc' = "done"
                         /\ UNCHANGED storeOps
                    ELSE /\ storeOps' = Append(storeOps, "find")
                         /\ pc' = "awaitFind"
                         /\ UNCHANGED unhandled
    /\ UNCHANGED <<cmd, awsEnv, appInfo, requests, response, store, creds, accessKeyId,
                   accessKeySecure, accessKeySecret, keyIdPrompts, secretPrompts>>
    /\ UNCHANGED uploadVars
    /\ UNCHANGED sideVars

\* Lines 377-407: build AWS.config, sign the request with
\* AWS.config.credentials and hand it to axios.  Reading a property of a
\* null AWS.config.credentials throws (line 399).
SignAndSend(id, sec) ==
    \E env \in EnvConsulted(sec) :
      LET c == AwsCredentials(id, sec, env) IN
      /\ awsEnv' = env
      /\ IF c.ok
         THEN /\ requests' = requests \cup
                   {[accessKeyId |-> c.accessKeyId, secretAccessKey |-> c.secretAccessKey,
                     hash |-> tar.hash, filename |-> tar.filename,
                     data |-> RequestData(App(tar, locales.value), force),
                     body |-> RequestBody(App(tar, locales.value), force),
                     sent |-> NotSent]}
              /\ pc' = "awaitAxios"
              /\ UNCHANGED unhandled
         ELSE /\ unhandled' = TRUE
              /\ pc' = "done"
              /\ UNCHANGED requests

\* Lines 361-364 and on: with accessKeySecure === false the secret prompt is
\* shown; with anything else publish goes on to sign and send.
AfterLookup(id, sec, lg) ==
    IF NeedsSecretPrompt(sec)
    THEN /\ secretPrompts' = secretPrompts + 1
         /\ logs' = lg \cup {"Password not found, please sign in"}
         /\ pc' = "awaitSecret"
         /\ UNCHANGED <<requests, unhandled, awsEnv>>
    ELSE /\ secretPrompts' = secretPrompts
         /\ logs' = lg
         /\ SignAndSend(id, sec)

\* Lines 349-359: findCredentials settled (a rejection is logged and leaves
\* creds undefined).  A single stored pair is taken as it is; otherwise the
\* key id prompt is shown.
FindSettled ==
    /\ pc = "awaitFind"
    /\ \E err \in BOOLEAN :
         LET lg == IF err THEN logs \cup {"error: keytar"} ELSE logs IN
         /\ creds' = IF err THEN [ok |-> FALSE, list |-> {}]
                           ELSE [ok |-> TRUE, list |-> findCredentials]
         /\ IF UniquePair(creds')
            THEN LET c == CHOOSE x \in creds'.list : TRUE IN
                 /\ accessKeyId' = c.account
                 /\ accessKeySecure' = c.password
                 /\ keyIdPrompts' = keyIdPrompts
                 /\ AfterLookup(c.account, c.password, lg)
            ELSE /\ logs' = lg \cup {"Credentials not found, please sign in"}
                 /\ keyIdPrompts' = keyIdPrompts + 1
                 /\ pc' = "awaitKeyId"
                 /\ UNCHANGED <<accessKeyId, accessKeySecure, secretPrompts, requests,
                                unhandled, awsEnv>>
    /\ UNCHANGED <<cmd, appInfo, archive, tar, response, store, accessKeySecret,
                   storeOps>>
    /\ UNCHANGED uploadVars
    /\ UNCHANGED sideVars /\ UNCHANGED localeVars

\* Lines 357-358: the operator typed a key id; getCredentials is called.
KeyIdAnswered ==
    /\ pc = "awaitKeyId"
    /\ \E id \in Accounts : accessKeyId' = id
    /\ storeOps' = Append(storeOps, "get")
    /\ pc' = "awaitGet"
    /\ UNCHANGED <<cmd, awsEnv, appInfo, archive, tar, requests, response, logs, unhandled,
                   store, creds, accessKeySecure, accessKeySecret, keyIdPrompts,
                   secretPrompts>>
    /\ UNCHANGED uploadVars
    /\ UNCHANGED sideVars /\ UNCHANGED localeVars

\* Lines 358-364: getCredentials settled: the secret, false, or (after a
\* logged rejection) undefined.
GetSettled ==
    /\ pc = "awaitGet"
    /\ \E err \in BOOLEAN :
         /\ accessKeySecure' = IF err THEN Undefined ELSE getCredentials(accessKeyId)
         /\ AfterLookup(accessKeyId, accessKeySecure',
                        IF err THEN logs \cup {"error: keytar"} ELSE logs)
    /\ UNCHANGED <<cmd, appInfo, archive, tar, response, store, creds, accessKeyId,
                   accessKeySecret, storeOps, keyIdPrompts>>
    /\ UNCHANGED uploadVars
    /\ UNCHANGED sideVars /\ UNCHANGED localeVars

\* Lines 364-373: the operator answered the secret prompt.
SecretAnswered ==
    /\ pc = "awaitSecret"
    /\ \E answer \in SecretAnswers :
         /\ accessKeySecret' = answer
         /\ IF SecretAnswerBranch(answer) = "store"
            THEN /\ storeOps' = Append(storeOps, "set")
                 /\ pc' = "awaitSet"
            ELSE /\ pc' = "done"
                 /\ UNCHANGED storeOps
    /\ UNCHANGED <<cmd, awsEnv, appInfo, archive, tar, requests, response, logs, unhandled,
                   store, creds, accessKeyId, accessKeySecure, keyIdPrompts, secretPrompts>>
    /\ UNCHANGED uploadVars
    /\ UNCHANGED sideVars /\ UNCHANGED localeVars

\* Lines 366-407: setCredentials settled.  A rejection is logged, success is
\* undefined and publish returns; otherwise the typed secret is used.
SetSettled ==
    /\ pc = "awaitSet"
    /\ \E err \in BOOLEAN :
         LET success == IF err THEN Undefined ELSE "true"
             lg == IF err THEN logs \cup {"error: keytar"} ELSE logs
         IN  /\ store' = IF err THEN store
                                ELSE [store EXCEPT ![accessKeyId] = accessKeySecret]
             /\ IF StoreResultBranch(success) = "halt"
                THEN /\ logs' = lg \cup {"Something went wrong storing your credentials"}
                     /\ pc' = "done"
                     /\ UNCHANGED <<accessKeySecure, requests, unhandled, awsEnv>>
                ELSE /\ accessKeySecure' = accessKeySecret
                     /\ logs' = lg
                     /\ SignAndSend(accessKeyId, accessKeySecret)
    /\ UNCHANGED <<cmd, appInfo, archive, tar, response, creds, accessKeyId,
                   accessKeySecret, storeOps, keyIdPrompts, secretPrompts>>
    /\ UNCHANGED uploadVars
    /\ UNCHANGED sideVars /\ UNCHANGED localeVars

\* Lines 135-182: uploadToS3 walks the tree synchronously.  Every eligible
\* file gets its putObject issued during the walk; a file the callback skips
\* and every directory entry has its promise resolved right away; an entry
\* that is neither file nor directory leaves its promise pending.
Walk(d, t) ==
    /\ cwd' = d
    /\ tree' = t
    /\ put' = [e \in AllEntries |->
                 IF e \in t /\ Eligible(d, e) THEN "inflight" ELSE put[e]]
    /\ promise' = [e \in AllEntries |->
                     IF e \in Entries(t)
                     THEN PromiseAfterWalk(d, e)
                     ELSE promise[e]]
    /\ overall' = Collected(t)
    /\ UNCHANGED uploadLog

\* Lines 407-434: axios settled.
\* Line 407, inside axios: the request handed over at line 407 is
\* serialized and written to the connection, before any answer can come.
AxiosTransmit ==
    /\ pc = "awaitAxios"
    /\ \E r \in requests : r.sent = NotSent
    /\ requests' = {[r EXCEPT !.sent = transformRequest(r.data)] : r \in requests}
    /\ UNCHANGED <<cmd, pc, awsEnv, appInfo, archive, tar, response, logs, unhandled>>
    /\ UNCHANGED credVars /\ UNCHANGED uploadVars
    /\ UNCHANGED sideVars /\ UNCHANGED localeVars

AxiosSettled ==
    /\ pc = "awaitAxios"
    /\ \A q \in requests : q.sent # NotSent
    /\ \E r \in Responses :
         /\ response' = r
         /\ CASE ResponseBranch(r) = "rejected" ->
                   /\ logs' = logs \cup {"error: msg"}
                   /\ pc' = "done"
                   /\ UNCHANGED unhandled
                   /\ UNCHANGED uploadVars
              [] ResponseBranch(r) = "upload" ->
                   /\ logs' = logs \cup {"msg"}
                   /\ \E d \in ProjectDirs, t \in Trees : Walk(d, t \cup {TarFile(appInfo.id, latest)})
                   /\ pc' = "awaitUploads"
                   /\ UNCHANGED unhandled
              [] OTHER ->
                   \* line 433 reads response.statusText; response is undefined
                   \* when the request itself failed
                   /\ logs' = logs \cup {"error: axios" : x \in {r} \cap {"none"}}
                                   \cup {"Failed pushing to the DB"}
                                   \cup {"error: statusText" : x \in {r} \ {"none"}}
                   /\ unhandled' = (r = "none")
                   /\ pc' = "done"
                   /\ UNCHANGED uploadVars
    /\ UNCHANGED <<cmd, awsEnv, appInfo, archive, tar, requests>>
    /\ UNCHANGED credVars
    /\ UNCHANGED sideVars /\ UNCHANGED localeVars

\* Lines 173-178 and 147-148: one putObject settled.  On success
\* 'Successfully uploaded <path>' is logged, the file's callback resolves and
\* then its map promise; on failure rejectWalk is called, 'Could not upload
\* <key>' is logged, and the rejection of the callback's promise surfaces in
\* the map promise's executor, which nobody handles.
PutSettled(f) ==
    /\ put[f] = "inflight"
    /\ \E result \in {"ok", "failed"} :
         /\ put' = [put EXCEPT ![f] = result]
         /\ promise' = [promise EXCEPT ![f] = MapPromiseAfter(result)]
         /\ uploadLog' = uploadLog \cup {UploadMessage(result, f)}
         /\ unhandled' = (unhandled \/ result = "failed")
    /\ UNCHANGED <<cmd, pc, awsEnv, appInfo, archive, tar, requests, response, logs, tree,
                   overall, cwd>>
    /\ UNCHANGED credVars
    /\ UNCHANGED sideVars /\ UNCHANGED localeVars

\* Lines 417-425: Promise.allSettled(filePromises) resolved, which needs every
\* promise of `overall` settled.  filePromises is always an array, so the
\* 'FAILED TO PUBLISH' branch of line 427 is never taken.
AllSettled ==
    /\ pc = "awaitUploads"
    /\ \A p \in overall : promise[p] = "resolved"
    /\ logs' = logs \cup
         {IF AllSettledRejects
          THEN "Failed to push an asset to the S3 storage"
          ELSE "Successfully published the app"}
    /\ pc' = "done"
    /\ UNCHANGED <<cmd, awsEnv, appInfo, archive, tar, requests, response, unhandled>>
    /\ UNCHANGED credVars /\ UNCHANGED uploadVars
    /\ UNCHANGED sideVars /\ UNCHANGED localeVars

(***************************************************************************)
(* logout (lines 217-224)                                                  *)
(***************************************************************************)
logoutFixed == <<cmd, awsEnv, appInfo, archive, tar, accessKeyId, accessKeySecure,
                 accessKeySecret, keyIdPrompts, secretPrompts, requests, response,
                 force, latest, descriptor, locales, entry, kept>>

\* Line 218: keytar.findCredentials is called and awaited.
LogoutStart ==
    /\ cmd = "logout" /\ pc = "start"
    /\ storeOps' = Append(storeOps, "find")
    /\ pc' = "awaitList"
    /\ UNCHANGED <<store, creds, del, logs, unhandled>>
    /\ UNCHANGED logoutFixed /\ UNCHANGED uploadVars

\* Lines 218-222: the listing settled.  Its rejection is not caught and ends
\* logout; otherwise deletePassword is called for every listed account.
LogoutListSettled ==
    /\ pc = "awaitList"
    /\ \E err \in BOOLEAN :
         IF err
         THEN /\ unhandled' = TRUE
              /\ pc' = "done"
              /\ UNCHANGED <<creds, del, storeOps>>
         ELSE /\ creds' = [ok |-> TRUE, list |-> findCredentials]
              /\ del' = [a \in Accounts |->
                            IF store[a] # NoSecret THEN "inflight" ELSE "none"]
              /\ storeOps' = storeOps \o [i \in 1..Cardinality(findCredentials) |-> "delete"]
              /\ pc' = "awaitDeletes"
              /\ UNCHANGED unhandled
    /\ UNCHANGED <<store, logs>>
    /\ UNCHANGED logoutFixed /\ UNCHANGED uploadVars

\* Line 220: one keytar.deletePassword settled: the pair is gone, or the
\* call failed and the pair is still stored.
DeleteSettled(a) ==
    /\ del[a] = "inflight"
    /\ \E result \in {"deleted", "failed"} :
         /\ del' = [del EXCEPT ![a] = result]
         /\ store' = IF result = "deleted" THEN [store EXCEPT ![a] = NoSecret] ELSE store
    /\ UNCHANGED <<pc, creds, storeOps, logs, unhandled>>
    /\ UNCHANGED logoutFixed /\ UNCHANGED uploadVars

\* Lines 222-223: Promise.allSettled over the deletions resolved, whatever
\* their outcomes, and the sign-out is reported.
LogoutAllSettled ==
    /\ pc = "awaitDeletes"
    /\ \A a \in Accounts : del[a] # "inflight"
    /\ logs' = logs \cup {"You have been signed out"}
    /\ pc' = "done"
    /\ UNCHANGED <<store, creds, del, storeOps, unhandled>>
    /\ UNCHANGED logoutFixed /\ UNCHANGED uploadVars

Next ==
    \/ BuildStart
    \/ BuildTarSettled
    \/ PublishStart
    \/ PublishTarSettled
    \/ FindSettled
    \/ KeyIdAnswered
    \/ GetSettled
    \/ SecretAnswered
    \/ SetSettled
    \/ AxiosTransmit
    \/ AxiosSettled
    \/ \E f \in AllEntries : PutSettled(f)
    \/ AllSettled
    \/ LogoutStart
    \/ LogoutListSettled
    \/ \E a \in Accounts : DeleteSettled(a)
    \/ LogoutAllSettled

Spec == Init /\ [][Next]_vars

(***************************************************************************)
(* Locale assembly and the archive filter on their own: publish is held at *)
(* its start and the computation is applied to every input of its domain.  *)
(***************************************************************************)
pipelineVars == <<cmd, pc, store, awsEnv, appInfo, archive, tar, creds, accessKeyId,
                  accessKeySecure, accessKeySecret, storeOps, keyIdPrompts, secretPrompts,
                  requests, response, tree, put, promise, overall, cwd, uploadLog, logs,
                  unhandled, force, latest, del>>

AtStartOfPublish ==
    /\ cmd = "publish"
    /\ store = [a \in Accounts |-> NoSecret]
    /\ force = FALSE
    /\ latest = FALSE
    /\ Idle

LocaleInit ==
    /\ AtStartOfPublish
    /\ descriptor \in Descriptors
    /\ locales = NotAssembled
    /\ entry = NoEntry
    /\ kept = "pending"

\* Lines 291-346 applied to the descriptor.
AssembleLocales ==
    /\ locales.state = "pending"
    /\ locales' = Assemble(descriptor)
    /\ UNCHANGED <<descriptor, entry, kept>>
    /\ UNCHANGED pipelineVars

LocaleNext == AssembleLocales

SpecLocale == LocaleInit /\ [][LocaleNext]_vars

FilterInit ==
    /\ AtStartOfPublish
    /\ descriptor = NoDescriptor
    /\ locales = NotAssembled
    /\ entry \in FilterEntries
    /\ kept = "pending"

\* Lines 84-94: tar.c asks the filter about one entry.
ApplyFilter ==
    /\ kept = "pending"
    /\ kept' = IF filter(entry) THEN "kept" ELSE "dropped"
    /\ UNCHANGED <<descriptor, locales, entry>>
    /\ UNCHANGED pipelineVars

FilterNext == ApplyFilter

SpecFilter == FilterInit /\ [][FilterNext]_vars

(***************************************************************************)
(* Vocabulary of the properties                                            *)
(***************************************************************************)
Issued == {e \in AllEntries : put[e] # "none"}
\* The files of the walked tree that pass the test of line 162: the
\* eligible assets of the publish.
EligibleFiles == {f \in tree : Eligible(cwd, f)}
SuccessReported == "Successfully published the app" \in logs
PartialFailureReported == "Failed to push an asset to the S3 storage" \in logs
FinalOutcomeReported == SuccessReported \/ PartialFailureReported
ArchiverFailed == archive \in {"createError", "readError"}

(***************************************************************************)
(* C1.  Once the registry has answered success=false, publish has logged    *)
(* the registry's message and returned, and no putObject was ever issued.  *)
(***************************************************************************)
C1_RejectedHaltsBeforeUpload ==
    response = "rejected" =>
        /\ "error: msg" \in logs
        /\ pc = "done"
        /\ Issued = {}
        /\ ~FinalOutcomeReported

C1_Witness == response = "rejected" /\ pc = "done" /\ requests # {}

(***************************************************************************)
(* C2.  After acceptance, when an eligible upload failed and the           *)
(* invocation can take no further step, the partial failure has been       *)
(* reported (the failed files being exactly those whose putObject          *)
(* rejected, all other eligible files uploaded).                           *)
(***************************************************************************)
C2_PartialFailureReported ==
    ( /\ response = "accepted"
      /\ \E f \in EligibleFiles : put[f] = "failed"
      /\ ~ENABLED Next )
    => /\ PartialFailureReported
       /\ ~SuccessReported
       /\ \A f \in EligibleFiles : put[f] \in {"ok", "failed"}

(***************************************************************************)
(* C3.  Success is reported only if the registry accepted the request and  *)
(* every eligible file of the tree was uploaded successfully: never after  *)
(* a rejection, a transport failure or a failed upload.                    *)
(***************************************************************************)
C3_SuccessOnlyIfAllUploaded ==
    SuccessReported =>
        /\ response = "accepted"
        /\ \A f \in EligibleFiles : put[f] = "ok"
        /\ \A e \in AllEntries : put[e] \notin {"failed", "inflight"}

C3_Witness ==
    /\ SuccessReported
    /\ Cardinality(EligibleFiles) >= 3
    /\ \E f \in EligibleFiles : Len(f.dir) = 2

(***************************************************************************)
(* C4.  From the moment publish waits for the uploads, every eligible file *)
(* at every depth has had its putObject issued, whatever happened to its   *)
(* siblings, and no final outcome is reported while a putObject is still   *)
(* in flight.                                                              *)
(***************************************************************************)
C4_AllIssuedAndAwaited ==
    /\ (response = "accepted" =>
           \A f \in EligibleFiles : put[f] # "none")
    /\ (FinalOutcomeReported =>
           \A e \in AllEntries : put[e] # "inflight")

C4_Witness ==
    /\ pc = "awaitUploads"
    /\ \E f, g \in EligibleFiles :
         /\ put[f] = "failed"
         /\ Len(g.dir) = 2
         /\ put[g] = "inflight"

(***************************************************************************)
(* C5.  Every request that was signed and sent carries the key id and the  *)
(* secret that credential resolution produced from the store or the prompt.*)
(***************************************************************************)
C5_SignedOnlyWithResolvedSecret ==
    \A r \in requests :
        /\ accessKeySecure \in Secrets
        /\ r.secretAccessKey = accessKeySecure
        /\ r.accessKeyId = accessKeyId

(***************************************************************************)
(* C6.  After an empty answer at the secret prompt publish has returned:   *)
(* no write to the store was issued, nothing was signed or sent, and no    *)
(* upload was issued.                                                      *)
(***************************************************************************)
C6_EmptySecretAborts ==
    accessKeySecret = "" =>
        /\ pc = "done"
        /\ "set" \notin {storeOps[i] : i \in 1..Len(storeOps)}
        /\ requests = {}
        /\ Issued = {}

C6_Witness == accessKeySecret = "" /\ pc = "done" /\ secretPrompts = 1

(***************************************************************************)
(* C7.  As claimed: the credential store is accessed at most twice.        *)
(***************************************************************************)
C7_AtMostTwoAccesses == cmd = "publish" => Len(storeOps) <= 2

(***************************************************************************)
(* C7, amended.  The store is accessed at most three times, in this order: *)
(* one listing, then (only when the listing did not yield exactly one      *)
(* pair) one lookup of the typed key id, then at most one write.           *)
(***************************************************************************)
C7_AtMostThreeOrdered ==
    cmd = "publish" =>
    /\ storeOps \in {<<>>, <<"find">>, <<"find", "get">>, <<"find", "get", "set">>}
    /\ (creds.ok /\ Cardinality(creds.list) = 1) => Len(storeOps) <= 1

C7_Witness == storeOps = <<"find", "get", "set">> /\ pc = "awaitAxios"

(***************************************************************************)
(* C8.  After a transport failure (no response, or a response without the  *)
(* nested body) publish has reported the submission failure and ended      *)
(* without an unhandled exception, and no upload was issued.               *)
(***************************************************************************)
C8_TransportFailureReported ==
    response \in {"none", "noBody"} =>
        /\ "Failed pushing to the DB" \in logs
        /\ pc = "done"
        /\ Issued = {}
        /\ ~unhandled

(***************************************************************************)
(* C9.  Each prompt is shown at most once, and with exactly one pair in    *)
(* the store neither prompt is shown.  (The store is read while no write   *)
(* to it has been issued, so it is the store publish started with.)        *)
(***************************************************************************)
C9_PromptsAtMostOnce ==
    /\ keyIdPrompts <= 1
    /\ secretPrompts <= 1
    /\ (Cardinality(findCredentials) = 1 /\ storeOps \in {<<>>, <<"find">>, <<"find", "get">>})
           => (keyIdPrompts = 0 /\ secretPrompts = 0)

(***************************************************************************)
(* C10.  After the Archiver failed, the invocation did nothing further:    *)
(* publish touched neither store nor network, and build did not report a   *)
(* finished build.                                                         *)
(***************************************************************************)
C10_ArchiverFailureFatal ==
    ArchiverFailed =>
        /\ storeOps = <<>>
        /\ requests = {}
        /\ Issued = {}
        /\ "Build finished" \notin logs

(***************************************************************************)
(* C11.  Locale assembly never raises an error, and a descriptor without   *)
(* any localized source yields the empty mapping.                          *)
(***************************************************************************)
C11_LocaleAssemblyNeverThrows ==
    locales.state # "pending" =>
        /\ locales.state = "done"
        /\ ( /\ ~descriptor.name.present /\ ~descriptor.summary.present
             /\ ~descriptor.tags.present /\ ~descriptor.changelog.present
             /\ descriptor.description.map = NoMap )
           => locales.value = NoMap

(***************************************************************************)
(* C13.  As claimed: a file under node_modules, the archive's own output   *)
(* file, and a dotfile outside node_modules are all left out of the        *)
(* archive.                                                                *)
(***************************************************************************)
UnderDependencyDir(e) == \E i \in 1..(Len(e.path) - 1) : e.path[i] = "node_modules"
IsOwnArchive(e) == e.isFile /\ e.path = <<tarFile>>
IsDotfile(e) == e.isFile /\ e.path[Len(e.path)] = ".env"

C13_FilterExcludesAsClaimed ==
    ( /\ kept # "pending"
      /\ entry.isFile
      /\ \/ UnderDependencyDir(entry)
         \/ IsOwnArchive(entry)
         \/ (IsDotfile(entry) /\ ~UnderDependencyDir(entry)) )
    => kept = "dropped"

(***************************************************************************)
(* C13, amended.  The filter leaves an entry out exactly when it is a file *)
(* whose path does not contain node_modules and either begins with '.' or  *)
(* contains the archive's file name.  So the archive's own output file and *)
(* the dotfiles of the root are left out, while everything under           *)
(* node_modules, every directory and a dotfile in a plain subdirectory are *)
(* kept.                                                                   *)
(***************************************************************************)
C13_FilterExcludesExactly ==
    kept # "pending" =>
        /\ kept = "dropped" <=>
              /\ entry.isFile
              /\ ~Includes(entry.path, "node_modules")
              /\ (entry.path[1] = ".env" \/ Includes(entry.path, tarFile))
        /\ IsOwnArchive(entry) => kept = "dropped"
        /\ (IsDotfile(entry) /\ Len(entry.path) = 1) => kept = "dropped"
        /\ UnderDependencyDir(entry) => kept = "kept"
        /\ entry.path = <<"lib", ".env">> => kept = "kept"

C13_Witness ==
    /\ kept = "kept"
    /\ entry = [path |-> <<"node_modules", ".env">>, isFile |-> TRUE]

(***************************************************************************)
(* C14.  In the assembled locales, a language that both the summary and    *)
(* the description source define gets the description source's text as its *)
(* description; a language only the summary defines gets the summary's.    *)
(***************************************************************************)
C14_DescriptionWinsOverSummary ==
    locales.state = "done" =>
        \A l \in Langs :
            /\ l \in DOMAIN descriptor.description.map
                 => locales.value[l].description = <<"description", l>>
            /\ (l \in DOMAIN descriptor.summary.map
                    /\ l \notin DOMAIN descriptor.description.map)
                 => locales.value[l].description = <<"summary", l>>

C14_Witness ==
    /\ locales.state = "done"
    /\ descriptor.summary.map = LangMap("summary", {"en", "nl"})
    /\ descriptor.description.map = LangMap("description", {"en"})
    /\ locales.value["en"].description = <<"description", "en">>
    /\ locales.value["nl"].description = <<"summary", "nl">>

C15_SignedOutMeansStoreEmpty ==
    "You have been signed out" \in logs => \A a \in Accounts : store[a] = NoSecret

(***************************************************************************)
(* C16.  When the registry accepted the request, every eligible file was   *)
(* uploaded successfully and the invocation can take no further step,      *)
(* overall success has been reported.                                      *)
(***************************************************************************)
C16_AcceptedAndUploadedReportsSuccess ==
    ( /\ response = "accepted"
      /\ \A f \in EligibleFiles : put[f] = "ok"
      /\ ~ENABLED Next )
    => SuccessReported

(***************************************************************************)
(* C20.  After acceptance, when the invocation can take no further step,   *)
(* whatever the per-file upload results were: every promise walkSync       *)
(* collected has settled, the wait on them is over and a final outcome has *)
(* been reported.                                                          *)
(***************************************************************************)
C20_EveryCollectedPromiseSettles ==
    ( /\ response = "accepted"
      /\ Socket \notin tree
      /\ ~ENABLED Next )
    => /\ \A p \in overall : promise[p] # "pending"
       /\ pc = "done"
       /\ FinalOutcomeReported

(***************************************************************************)
(* Credential resolution, as the state records it.                         *)
(***************************************************************************)
StoreOpsSet == {storeOps[i] : i \in 1..Len(storeOps)}
ListingSettled == cmd = "publish" /\ storeOps # <<>> /\ pc # "awaitFind"
ListedExactlyOne == creds.ok /\ Cardinality(creds.list) = 1
StoreFailureReported == "Something went wrong storing your credentials" \in logs

\* Found -> Ready: the single listed pair is used and no prompt is shown.
FoundPath ==
    (ListingSettled /\ ListedExactlyOne) =>
        /\ keyIdPrompts = 0 /\ secretPrompts = 0
        /\ [account |-> accessKeyId, password |-> accessKeySecure] \in creds.list
        /\ storeOps = <<"find">>
        /\ requests # {}
        /\ \A r \in requests : r.accessKeyId = accessKeyId
                               /\ r.secretAccessKey = accessKeySecure

\* Zero or several listed pairs: the key id prompt, then the lookup of the
\* typed id.
PromptedPath ==
    (ListingSettled /\ ~ListedExactlyOne) =>
        /\ keyIdPrompts = 1
        /\ pc # "awaitKeyId" => (accessKeyId \in Accounts /\ Len(storeOps) >= 2
                                 /\ storeOps[2] = "get")

\* The secret prompt is shown only after the lookup found no secret for the
\* typed id.
SecretPromptOnlyWhenAbsent ==
    secretPrompts > 0 =>
        /\ keyIdPrompts = 1
        /\ "get" \in StoreOpsSet
        /\ pc \in {"awaitSecret", "awaitSet"} =>
               (store[accessKeyId] = NoSecret /\ accessKeySecure = FalseVal)

(***************************************************************************)
(* C17.  As claimed: credential resolution follows the stated transitions, *)
(* and a non-empty answer at the secret prompt is persisted and leads to   *)
(* Ready (the request is signed with it).                                  *)
(***************************************************************************)
C17_NonEmptyAnswerPersistedAndReady ==
    /\ FoundPath
    /\ PromptedPath
    /\ SecretPromptOnlyWhenAbsent
    /\ (accessKeySecret \in Secrets /\ pc # "awaitSet") =>
           /\ store[accessKeyId] = accessKeySecret
           /\ requests # {}

(***************************************************************************)
(* C17, amended.  The same transitions, but a non-empty answer leads to    *)
(* Ready only when its write to the store succeeded; when the write failed *)
(* publish has reported the failure and ended with nothing persisted and   *)
(* nothing signed.                                                         *)
(***************************************************************************)
C17_NonEmptyAnswerReadyIfStored ==
    /\ FoundPath
    /\ PromptedPath
    /\ SecretPromptOnlyWhenAbsent
    /\ (accessKeySecret \in Secrets /\ pc # "awaitSet") =>
           \/ /\ store[accessKeyId] = accessKeySecret
              /\ accessKeySecure = accessKeySecret
              /\ requests # {}
              /\ ~StoreFailureReported
           \/ /\ store[accessKeyId] = NoSecret
              /\ requests = {}
              /\ pc = "done"
              /\ StoreFailureReported

C17_Witness ==
    /\ accessKeySecret \in Secrets /\ storeOps = <<"find", "get", "set">>
    /\ pc = "done" /\ StoreFailureReported /\ store[accessKeyId] = NoSecret

(***************************************************************************)
(* C18.  Whenever a request was signed after the secret prompt had been    *)
(* shown, the typed secret had been written to the store and is the secret *)
(* the request was signed with; and after a failed write no request was    *)
(* signed or sent.                                                         *)
(***************************************************************************)
C18_PromptedSecretPersistedBeforeUse ==
    /\ (secretPrompts > 0 /\ requests # {}) =>
           /\ storeOps = <<"find", "get", "set">>
           /\ store[accessKeyId] = accessKeySecret
           /\ \A r \in requests : r.secretAccessKey = accessKeySecret
    /\ ("set" \in StoreOpsSet /\ pc # "awaitSet" /\ store[accessKeyId] # accessKeySecret) =>
           /\ requests = {}
           /\ Issued = {}

C18_Witness ==
    /\ secretPrompts = 1 /\ pc = "awaitAxios"
    /\ store[accessKeyId] = accessKeySecret
    /\ \E r \in requests : r.secretAccessKey = accessKeySecret

(***************************************************************************)
(* C19.  The publish steps are strictly sequential: a request was signed   *)
(* and sent only after this invocation produced the archive and its hash   *)
(* and resolved the credentials, its body carries that archive's hash and  *)
(* filename, and an upload was issued only after the registry's accepting  *)
(* response.                                                               *)
(***************************************************************************)
C19_StepsStrictlySequential ==
    /\ requests # {} =>
           /\ archive = "ok" /\ tar = ArchiveOf(appInfo.id, latest)
           /\ accessKeyId \in Accounts /\ accessKeySecure \in Secrets
           /\ \A r \in requests :
                  /\ r.hash = tar.hash /\ r.filename = tar.filename
                  /\ r.accessKeyId = accessKeyId
                  /\ r.secretAccessKey = accessKeySecure
    /\ Issued # {} => (response = "accepted" /\ requests # {})

====
